---- MODULE Spec2Model ----
(***************************************************************************)
(* Model of the list formatter (list-formatter.ts) and of the settings tab *)
(* of the plugin that drives it.                                           *)
(*                                                                         *)
(* A string is a sequence of one-character strings.  A text is a string    *)
(* that may contain the line separator "\n".                               *)
(***************************************************************************)
EXTENDS Integers, Sequences, FiniteSets, TLC

VARIABLES
    input,          \* the text that was selected in the editor at first
    selection,      \* the text now selected (replaced by each formatting)
    applied,        \* the styles applied to the selection so far, in order
    budget,         \* how many more times the user runs the command
    frames,         \* SpecCalls: the activation of a style function per caller
    ref,            \* SpecCalls: one finished call, remembered (arguments, result)
    defaultStyle,   \* settings.advancedListSettings.defaultStyle
    enabledStyles,  \* settings.advancedListSettings.enabledStyles
    options,        \* the option values of the default-style dropdown as last built
    selected,       \* the value the dropdown shows
    pending,        \* toggle handlers suspended at `await saveSettings()`
    enables         \* how often a toggle was switched on so far

vars == <<input, selection, applied, budget, frames, ref,
          defaultStyle, enabledStyles, options, selected, pending, enables>>

textVars     == <<input, selection, applied, budget>>
callVars     == <<frames, ref>>
settingsVars == <<defaultStyle, enabledStyles, options, selected, pending, enables>>

----------------------------------------------------------------------------
(* Bounds of the model *)

\* longest text (in characters) of the exhaustive specification Spec
MaxLen == 4

\* longest text (in characters) of SpecTwice, where the command runs twice
MaxTwiceLen == 3

\* most lines of a text of SpecLong
MaxLines == 28

\* most toggle handlers suspended at their await at one time
MaxPending == 1

\* most times a toggle is switched on in one run
MaxEnables == 1

----------------------------------------------------------------------------
(* Characters and character classes, as JavaScript defines them *)

NL == "\n"
CR == "\r"
SP == " "

\* characters of the exhaustive texts
Alphabet == {NL, SP, CR, "-", "1", ".", "i", ")"}

DigitChars == <<"0", "1", "2", "3", "4", "5", "6", "7", "8", "9">>

LowerLetters == <<"a", "b", "c", "d", "e", "f", "g", "h", "i", "j", "k", "l", "m",
                  "n", "o", "p", "q", "r", "s", "t", "u", "v", "w", "x", "y", "z">>

UpperLetters == <<"A", "B", "C", "D", "E", "F", "G", "H", "I", "J", "K", "L", "M",
                  "N", "O", "P", "Q", "R", "S", "T", "U", "V", "W", "X", "Y", "Z">>

Range(f) == {f[i] : i \in DOMAIN f}

\* \d
Digits == Range(DigitChars)

\* [a-zA-Z]
Letters == Range(LowerLetters) \cup Range(UpperLetters)

\* [ivxlcdmIVXLCDM]
RomanLetters == {"i", "v", "x", "l", "c", "d", "m", "I", "V", "X", "L", "C", "D", "M"}

\* [-*+]
BulletChars == {"-", "*", "+"}

\* the characters `.` of a regular expression does not match
LineTerminators == {NL, CR}

\* \s of a regular expression, and what String.prototype.trim removes
IsSpace(c) == c \in {SP, "\t", NL, CR}

\* String.fromCharCode for the codes the generators can reach
fromCharCode(code) ==
    IF code \in 97..122 THEN LowerLetters[code - 96]
    ELSE IF code \in 65..90 THEN UpperLetters[code - 64]
    ELSE IF code = 91 THEN "["
    ELSE IF code = 123 THEN "{"
    ELSE "?"

\* 'x'.charCodeAt(0) for a letter x
charCodeAt(c) ==
    IF \E i \in 1..26 : LowerLetters[i] = c
    THEN 96 + (CHOOSE i \in 1..26 : LowerLetters[i] = c)
    ELSE 64 + (CHOOSE i \in 1..26 : UpperLetters[i] = c)

\* String.prototype.toLowerCase on one character
toLowerChar(c) ==
    IF \E i \in 1..26 : UpperLetters[i] = c
    THEN LowerLetters[CHOOSE i \in 1..26 : UpperLetters[i] = c]
    ELSE c

toLowerCase(s) == [i \in 1..Len(s) |-> toLowerChar(s[i])]

\* `${n}` for a non-negative integer n
RECURSIVE toString(_)
toString(n) ==
    IF n < 10 THEN <<DigitChars[n + 1]>>
    ELSE toString(n \div 10) \o toString(n % 10)

----------------------------------------------------------------------------
(* String operations *)

\* String.prototype.split('\n')
RECURSIVE split(_)
split(text) ==
    IF \A i \in 1..Len(text) : text[i] # NL THEN <<text>>
    ELSE LET p == CHOOSE i \in 1..Len(text) :
                      text[i] = NL /\ \A j \in 1..(i - 1) : text[j] # NL
         IN  <<SubSeq(text, 1, p - 1)>> \o split(SubSeq(text, p + 1, Len(text)))

\* join with the separator left out: lines.join('')
RECURSIVE join_noSeparator(_)
join_noSeparator(lines) ==
    IF Len(lines) = 0 THEN <<>> ELSE lines[1] \o join_noSeparator(Tail(lines))

\* Array.prototype.join('\n')
RECURSIVE join(_)
join(lines) ==
    IF Len(lines) = 0 THEN <<>>
    ELSE IF Len(lines) = 1 THEN lines[1]
    ELSE lines[1] \o <<NL>> \o join(Tail(lines))

\* the length of the longest prefix of s made of white space: /^(\s*)/
LeadingSpace(s) ==
    IF \A i \in 1..Len(s) : IsSpace(s[i]) THEN Len(s)
    ELSE (CHOOSE i \in 1..Len(s) :
              ~IsSpace(s[i]) /\ \A j \in 1..(i - 1) : IsSpace(s[j])) - 1

\* no trimming at all: `line === ''` for `line.trim() === ''`
trim_nothing(s) == s

\* String.prototype.trim
trim(s) ==
    IF \A i \in 1..Len(s) : IsSpace(s[i]) THEN <<>>
    ELSE LET a == LeadingSpace(s) + 1
             b == CHOOSE i \in 1..Len(s) :
                      ~IsSpace(s[i]) /\ \A j \in (i + 1)..Len(s) : IsSpace(s[j])
         IN  SubSeq(s, a, b)

----------------------------------------------------------------------------
(* PREFIX_REGEX and processLine *)

\* s[from..to] is the marker of alternative k of PREFIX_REGEX:
\*   1: [-*+]   2: \d+\.   3: [a-zA-Z][.)]   4: [ivxlcdmIVXLCDM]+\.
MarkerBody(s, from, to, k) ==
    CASE k = 1 -> to = from /\ s[from] \in BulletChars
      [] k = 2 -> /\ to > from
                  /\ s[to] = "."
                  /\ \A i \in from..(to - 1) : s[i] \in Digits
      [] k = 3 -> /\ to = from + 1
                  /\ s[from] \in Letters
                  /\ s[to] \in {".", ")"}
      [] k = 4 -> /\ to > from
                  /\ s[to] = "."
                  /\ \A i \in from..(to - 1) : s[i] \in RomanLetters

\* the positions e at which group 1 of PREFIX_REGEX can end when alternative k
\* is taken: s[1..e] matches \s* <marker k> \s+ and the rest matches (.*)$,
\* that is, holds no line terminator
PrefixEnds(s, k) ==
    {e \in 1..Len(s) :
        /\ \A i \in (e + 1)..Len(s) : s[i] \notin LineTerminators
        /\ \E a \in 0..LeadingSpace(s) : \E m \in (a + 1)..(e - 1) :
              /\ MarkerBody(s, a + 1, m, k)
              /\ \A i \in (m + 1)..e : IsSpace(s[i])}

Max(S) == CHOOSE x \in S : \A y \in S : y <= x

\* content.match(PREFIX_REGEX): [matched |-> FALSE], or the two groups of the
\* match.  The alternatives are tried in order; within one alternative the
\* quantifiers are greedy, and as the marker is fixed by the text the greedy
\* choice is the longest run of white space after it.
PREFIX_REGEX(s) ==
    LET ends == [k \in 1..4 |-> PrefixEnds(s, k)]
    IN  IF \A k \in 1..4 : ends[k] = {}
        THEN [matched |-> FALSE, g1 |-> <<>>, g2 |-> <<>>]
        ELSE LET k == CHOOSE j \in 1..4 :
                          ends[j] # {} /\ \A h \in 1..(j - 1) : ends[h] = {}
                 e == Max(ends[k])
             IN  [matched |-> TRUE, g1 |-> SubSeq(s, 1, e),
                  g2 |-> SubSeq(s, e + 1, Len(s))]

\* processLine with the marker put before the indentation
processLine_markerFirst(line, newPrefix) ==
    IF trim(line) = <<>> THEN line
    ELSE LET content     == SubSeq(line, LeadingSpace(line) + 1, Len(line))
             prefixMatch == PREFIX_REGEX(content)
         IN  IF prefixMatch.matched
             THEN newPrefix \o SubSeq(line, 1, LeadingSpace(line)) \o prefixMatch.g2
             ELSE newPrefix \o line

processLine(line, newPrefix) ==
    IF trim(line) = <<>> THEN line
    ELSE LET indentation == SubSeq(line, 1, LeadingSpace(line))
             content     == SubSeq(line, Len(indentation) + 1, Len(line))
             prefixMatch == PREFIX_REGEX(content)
         IN  IF prefixMatch.matched
             THEN indentation \o newPrefix \o prefixMatch.g2
             ELSE indentation \o newPrefix \o content

----------------------------------------------------------------------------
(* The style functions *)

\* the table with its fourth entry mistyped
ROMAN_NUMERALS_UPPER_typo ==
    << <<"I">>, <<"I", "I">>, <<"I", "I", "I">>, <<"I", "I", "I", "I">>, <<"V">>,
       <<"V", "I">>, <<"V", "I", "I">>, <<"V", "I", "I", "I">>, <<"I", "X">>, <<"X">>,
       <<"X", "I">>, <<"X", "I", "I">>, <<"X", "I", "I", "I">>, <<"X", "I", "V">>,
       <<"X", "V">>, <<"X", "V", "I">>, <<"X", "V", "I", "I">>,
       <<"X", "V", "I", "I", "I">>, <<"X", "I", "X">>, <<"X", "X">> >>

ROMAN_NUMERALS_UPPER ==
    << <<"I">>, <<"I", "I">>, <<"I", "I", "I">>, <<"I", "V">>, <<"V">>,
       <<"V", "I">>, <<"V", "I", "I">>, <<"V", "I", "I", "I">>, <<"I", "X">>, <<"X">>,
       <<"X", "I">>, <<"X", "I", "I">>, <<"X", "I", "I", "I">>, <<"X", "I", "V">>,
       <<"X", "V">>, <<"X", "V", "I">>, <<"X", "V", "I", "I">>,
       <<"X", "V", "I", "I", "I">>, <<"X", "I", "X">>, <<"X", "X">> >>

ROMAN_NUMERALS_LOWER ==
    [i \in 1..Len(ROMAN_NUMERALS_UPPER) |-> toLowerCase(ROMAN_NUMERALS_UPPER[i])]

\* the state of a marker generator when a call starts: the declarations
\* `let counter = ...` / `let charCode = ...` of the style function
InitialCounter(style) ==
    CASE style = "numbered"          -> 1
      [] style = "alphabetical"      -> charCodeAt("a")
      [] style = "alphabeticalUpper" -> charCodeAt("A")
      [] OTHER                       -> 0

\* the prefix the callback of lines.map gives a non-blank line, from the
\* generator's state
PrefixOf(style, counter) ==
    CASE style = "bullet"            -> <<"-", SP>>
      [] style = "checkbox"          -> <<"-", SP, "[", SP, "]", SP>>
      [] style = "numbered"          -> toString(counter) \o <<".", SP>>
      [] style = "alphabetical"      -> <<fromCharCode(counter), ".", SP>>
      [] style = "alphabeticalUpper" -> <<fromCharCode(counter), ".", SP>>
      [] style = "roman"             ->
            ROMAN_NUMERALS_LOWER[(counter % Len(ROMAN_NUMERALS_LOWER)) + 1] \o <<".", SP>>
      [] style = "romanUpper"        ->
            ROMAN_NUMERALS_UPPER[(counter % Len(ROMAN_NUMERALS_UPPER)) + 1] \o <<".", SP>>

\* the generator's step with the letters wrapping one step late
NextCounter_wrapLate(style, counter) ==
    CASE style = "numbered"          -> counter + 1
      [] style = "alphabetical"      ->
            IF counter > charCodeAt("z") THEN charCodeAt("a") ELSE counter + 1
      [] style = "alphabeticalUpper" ->
            IF counter > charCodeAt("Z") THEN charCodeAt("A") ELSE counter + 1
      [] style = "roman"             -> counter + 1
      [] style = "romanUpper"        -> counter + 1
      [] OTHER                       -> counter

\* the generator's state after the callback handled a non-blank line
NextCounter(style, counter) ==
    CASE style = "numbered"          -> counter + 1
      [] style = "alphabetical"      ->
            IF counter + 1 > charCodeAt("z") THEN charCodeAt("a") ELSE counter + 1
      [] style = "alphabeticalUpper" ->
            IF counter + 1 > charCodeAt("Z") THEN charCodeAt("A") ELSE counter + 1
      [] style = "roman"             -> counter + 1
      [] style = "romanUpper"        -> counter + 1
      [] OTHER                       -> counter

\* whether the callback returns the line as it is, before any marker is made
IsBlank(line) == trim(line) = <<>>

\* the callback with the generator stepped on blank lines too
MapCallback_countBlank(style, line, counter) ==
    IF IsBlank(line) THEN [line |-> line, counter |-> NextCounter(style, counter)]
    ELSE [line    |-> processLine(line, PrefixOf(style, counter)),
          counter |-> NextCounter(style, counter)]

\* one call of the callback of lines.map: the line it returns and the
\* generator's state it leaves
MapCallback(style, line, counter) ==
    IF IsBlank(line) THEN [line |-> line, counter |-> counter]
    ELSE [line    |-> processLine(line, PrefixOf(style, counter)),
          counter |-> NextCounter(style, counter)]

\* lines.map(callback), the generator's state threaded through the lines
RECURSIVE MapLines(_, _, _)
MapLines(style, lines, counter) ==
    IF Len(lines) = 0 THEN <<>>
    ELSE LET r == MapCallback(style, Head(lines), counter)
         IN  <<r.line>> \o MapLines(style, Tail(lines), r.counter)

FormatWith(style, text) == join(MapLines(style, split(text), InitialCounter(style)))

formatBulletList(text) == FormatWith("bullet", text)

formatNumberedList(text) == FormatWith("numbered", text)

formatAlphabeticalList(text, lower) ==
    FormatWith(IF lower THEN "alphabetical" ELSE "alphabeticalUpper", text)

formatRomanList(text, lower) ==
    FormatWith(IF lower THEN "roman" ELSE "romanUpper", text)

formatCheckboxList(text) == FormatWith("checkbox", text)

\* the keys of ALL_POSSIBLE_STYLES, in the order of the object literal
ALL_POSSIBLE_STYLES ==
    <<"bullet", "numbered", "alphabetical", "alphabeticalUpper",
      "roman", "romanUpper", "checkbox">>

Styles == Range(ALL_POSSIBLE_STYLES)

\* the switch of the command 'apply-list-style'
FormattedText(style, text) ==
    CASE style = "bullet"            -> formatBulletList(text)
      [] style = "numbered"          -> formatNumberedList(text)
      [] style = "alphabetical"      -> formatAlphabeticalList(text, TRUE)
      [] style = "alphabeticalUpper" -> formatAlphabeticalList(text, FALSE)
      [] style = "roman"             -> formatRomanList(text, TRUE)
      [] style = "romanUpper"        -> formatRomanList(text, FALSE)
      [] style = "checkbox"          -> formatCheckboxList(text)

----------------------------------------------------------------------------
(* The editor command 'apply-list-style' *)

\* every string of at most n characters of the alphabet
TextsUpTo(n) == UNION {[1..k -> Alphabet] : k \in 0..n}

\* the state of the parts of the program a specification leaves alone
CallsIdle == frames = <<>> /\ ref = <<>>

SettingsIdle ==
    /\ defaultStyle = "bullet"
    /\ enabledStyles = ALL_POSSIBLE_STYLES
    /\ options = <<>>
    /\ selected = ""
    /\ pending = 0
    /\ enables = 0

\* the user selects a text and runs the command on it
Init ==
    /\ input \in TextsUpTo(MaxLen)
    /\ selection = input
    /\ applied = <<>>
    /\ budget = 1
    /\ CallsIdle
    /\ SettingsIdle

\* the user selects a text, runs the command on it, and runs it once more on
\* the result, which replaced the selection
InitTwice ==
    /\ input \in TextsUpTo(MaxTwiceLen)
    /\ selection = input
    /\ applied = <<>>
    /\ budget = 2
    /\ CallsIdle
    /\ SettingsIdle

\* long texts: n lines, each an item but for at most one blank line (the one
\* at position blank; blank = 0: none)
LongLines(n, blank, gap, item) == [i \in 1..n |-> IF i = blank THEN gap ELSE item]

BlankLines == {<<>>, <<SP>>}

ItemLines == {<<"x">>, <<SP, "1", ".", SP, "x">>}

\* the text of the given lines
RECURSIVE Unlines(_)
Unlines(lines) ==
    IF Len(lines) = 1 THEN lines[1]
    ELSE lines[1] \o <<NL>> \o Unlines(Tail(lines))

LongTextsUpTo(maxLines) ==
    {Unlines(LongLines(n[1], n[2], gap, item)) :
        n \in {p \in (1..maxLines) \X (0..maxLines) : p[2] <= p[1]},
        gap \in BlankLines, item \in ItemLines}

InitLong ==
    /\ input \in LongTextsUpTo(MaxLines)
    /\ selection = input
    /\ applied = <<>>
    /\ budget = 1
    /\ CallsIdle
    /\ SettingsIdle

\* the editor callback with the style the user picks in the modal:
\* editor.replaceSelection(formattedText)
ApplyListStyle(style) ==
    /\ budget > 0
    /\ selection' = FormattedText(style, selection)
    /\ applied' = Append(applied, style)
    /\ budget' = budget - 1
    /\ UNCHANGED <<input, callVars, settingsVars>>

Next == \E style \in Styles : ApplyListStyle(style)

Spec == Init /\ [][Next]_vars

SpecTwice == InitTwice /\ [][Next]_vars

SpecLong == InitLong /\ [][Next]_vars

----------------------------------------------------------------------------
(* Calls of the style functions, a line at a time, by several callers *)

Callers == {"A", "B"}

\* the texts the callers pass
CallTexts == { <<"x", NL, SP, NL, "-", SP, "y">>, <<"1", ".", SP, "a", NL, "b">> }

\* a caller that has called nothing yet
IdleFrame ==
    [pc |-> "idle", style |-> "bullet", text |-> <<>>, lines |-> <<>>, idx |-> 1,
     counter |-> 0, out |-> <<>>, result |-> <<>>, afterRef |-> FALSE]

\* the entry with the generator's state left as the caller's last call left it
EnterCall_staleCounter(frame, style, text) ==
    [pc |-> "running", style |-> style, text |-> text, lines |-> split(text), idx |-> 1,
     counter |-> frame.counter, out |-> <<>>, result |-> <<>>, afterRef |-> FALSE]

\* the entry of a style function: `const lines = text.split('\n')` and the
\* declaration of the generator's state, in a new activation
EnterCall(frame, style, text) ==
    [pc |-> "running", style |-> style, text |-> text, lines |-> split(text), idx |-> 1,
     counter |-> InitialCounter(style), out |-> <<>>, result |-> <<>>, afterRef |-> FALSE]

InitCalls ==
    /\ input = <<>>
    /\ selection = <<>>
    /\ applied = <<>>
    /\ budget = 0
    /\ frames = [c \in Callers |-> IdleFrame]
    /\ ref = <<>>
    /\ SettingsIdle

\* caller c calls the style function of `style` on `text`
Call(c, style, text) ==
    /\ frames[c].pc \in {"idle", "done"}
    /\ frames' = [frames EXCEPT
                    ![c] = [EnterCall(frames[c], style, text) EXCEPT !.afterRef = (ref # <<>>)]]
    /\ UNCHANGED <<ref, textVars, settingsVars>>

\* the callback of lines.map on the next line of caller c's call
Step(c) ==
    /\ frames[c].pc = "running"
    /\ frames[c].idx <= Len(frames[c].lines)
    /\ LET f == frames[c]
           r == MapCallback(f.style, f.lines[f.idx], f.counter)
       IN  frames' = [frames EXCEPT ![c].out = Append(f.out, r.line),
                                    ![c].counter = r.counter,
                                    ![c].idx = f.idx + 1]
    /\ UNCHANGED <<ref, textVars, settingsVars>>

\* `return processedLines.join('\n')`; the finished call may be remembered
\* as the reference the later calls are compared with
Return(c) ==
    /\ frames[c].pc = "running"
    /\ frames[c].idx > Len(frames[c].lines)
    /\ frames' = [frames EXCEPT ![c].pc = "done", ![c].result = join(frames[c].out)]
    /\ \E keep \in BOOLEAN :
          ref' = IF keep /\ ref = <<>>
                 THEN [style |-> frames[c].style, text |-> frames[c].text,
                       result |-> join(frames[c].out)]
                 ELSE ref
    /\ UNCHANGED <<textVars, settingsVars>>

NextCalls ==
    \/ \E c \in Callers, style \in Styles, text \in CallTexts : Call(c, style, text)
    \/ \E c \in Callers : Step(c)
    \/ \E c \in Callers : Return(c)

SpecCalls == InitCalls /\ [][NextCalls]_vars

----------------------------------------------------------------------------
(* The settings tab *)

\* Array.prototype.includes
Includes(seq, x) == \E i \in 1..Len(seq) : seq[i] = x

\* enabledStyles after the toggle handler, with push not guarded by includes
ToggledStyles_pushAlways(enabled, styleId, value) ==
    IF value THEN Append(enabled, styleId)
    ELSE SelectSeq(enabled, LAMBDA x : x # styleId)

\* enabledStyles after the toggle handler of styleId got `value`
ToggledStyles(enabled, styleId, value) ==
    IF value
    THEN IF ~Includes(enabled, styleId) THEN Append(enabled, styleId) ELSE enabled
    ELSE SelectSeq(enabled, LAMBDA x : x # styleId)

\* "Ensure defaultStyle is still valid and enabled"
EnsuredDefault(default, enabled) ==
    IF ~Includes(enabled, default)
    THEN IF Len(enabled) > 0 THEN enabled[1] ELSE "bullet"
    ELSE default

\* display(): the default it settles and the options it gives the dropdown
Display(default, enabled) ==
    LET settled ==
            IF default \in Styles /\ Includes(enabled, default) THEN default
            ELSE IF Len(enabled) > 0 THEN enabled[1]
            ELSE "bullet"
    IN  [defaultStyle |-> settled,
         options |-> <<settled>> \o
                     SelectSeq(enabled, LAMBDA x : x # settled /\ x \in Styles)]

InitSettings ==
    /\ input = <<>>
    /\ selection = <<>>
    /\ applied = <<>>
    /\ budget = 0
    /\ CallsIdle
    /\ SettingsIdle

\* the user opens the settings tab: display()
OpenTab ==
    /\ LET d == Display(defaultStyle, enabledStyles)
       IN  /\ defaultStyle' = d.defaultStyle
           /\ options' = d.options
           /\ selected' = d.defaultStyle
    /\ UNCHANGED <<enabledStyles, pending, enables, textVars, callVars>>

\* the toggle of styleId changes: the handler up to `await saveSettings()`
ToggleChange(styleId, value) ==
    /\ options # <<>>
    /\ pending < MaxPending
    /\ value => enables < MaxEnables
    /\ enabledStyles' = ToggledStyles(enabledStyles, styleId, value)
    /\ defaultStyle' = EnsuredDefault(defaultStyle, enabledStyles')
    /\ pending' = pending + 1
    /\ enables' = IF value THEN enables + 1 ELSE enables
    /\ UNCHANGED <<options, selected, textVars, callVars>>

\* a toggle handler goes on after its await: this.display()
ToggleResume ==
    /\ pending > 0
    /\ LET d == Display(defaultStyle, enabledStyles)
       IN  /\ defaultStyle' = d.defaultStyle
           /\ options' = d.options
           /\ selected' = d.defaultStyle
    /\ pending' = pending - 1
    /\ UNCHANGED <<enabledStyles, enables, textVars, callVars>>

\* the user picks another option of the dropdown
DropdownChange(value) ==
    /\ Includes(options, value)
    /\ value # selected
    /\ defaultStyle' = value
    /\ selected' = value
    /\ UNCHANGED <<enabledStyles, options, pending, enables, textVars, callVars>>

NextSettings ==
    \/ OpenTab
    \/ \E styleId \in Styles, value \in BOOLEAN : ToggleChange(styleId, value)
    \/ ToggleResume
    \/ \E value \in Styles : DropdownChange(value)

SpecSettings == InitSettings /\ [][NextSettings]_vars

----------------------------------------------------------------------------
(* What the claims speak of, defined on the texts themselves *)

\* the lines of a text: the runs between its separators, read off from the
\* position idx on
RECURSIVE LinesFrom(_, _)
LinesFrom(text, idx) ==
    IF \A p \in idx..Len(text) : text[p] # NL
    THEN <<SubSeq(text, idx, Len(text))>>
    ELSE LET nl == CHOOSE p \in idx..Len(text) :
                       text[p] = NL /\ \A q \in idx..(p - 1) : text[q] # NL
         IN  <<SubSeq(text, idx, nl - 1)>> \o LinesFrom(text, nl + 1)

Lines(text) == LinesFrom(text, 1)

\* a line that is empty or holds white space only
Blank(line) == \A i \in 1..Len(line) : IsSpace(line[i])

\* the number of white-space characters a line starts with
IndentLen(line) == Cardinality({k \in 1..Len(line) : \A j \in 1..k : IsSpace(line[j])})

Indent(line) == SubSeq(line, 1, IndentLen(line))

Content(line) == SubSeq(line, IndentLen(line) + 1, Len(line))

StartsWith(s, p) == Len(p) <= Len(s) /\ SubSeq(s, 1, Len(p)) = p

IsSuffix(t, s) == Len(t) <= Len(s) /\ SubSeq(s, Len(s) - Len(t) + 1, Len(s)) = t

\* how many of the lines before line i are not blank
ItemsBefore(lines, i) == Cardinality({j \in 1..(i - 1) : ~Blank(lines[j])})

\* the roman numeral of n, 1 <= n <= 39, built from its tens and its units
RomanUnits ==
    << <<>>, <<"I">>, <<"I", "I">>, <<"I", "I", "I">>, <<"I", "V">>, <<"V">>,
       <<"V", "I">>, <<"V", "I", "I">>, <<"V", "I", "I", "I">>, <<"I", "X">> >>

RomanOf(n) == [i \in 1..(n \div 10) |-> "X"] \o RomanUnits[(n % 10) + 1]

\* the marker the specification gives the item at 0-based position n
ExpectedMarker(style, n) ==
    CASE style = "bullet"            -> <<"-", SP>>
      [] style = "checkbox"          -> <<"-", SP, "[", SP, "]", SP>>
      [] style = "numbered"          -> toString(n + 1) \o <<".", SP>>
      [] style = "alphabetical"      -> <<LowerLetters[(n % 26) + 1], ".", SP>>
      [] style = "alphabeticalUpper" -> <<UpperLetters[(n % 26) + 1], ".", SP>>
      [] style = "roman"             -> toLowerCase(RomanOf((n % 20) + 1)) \o <<".", SP>>
      [] style = "romanUpper"        -> RomanOf((n % 20) + 1) \o <<".", SP>>

\* the command ran once, with this style
Once == Len(applied) = 1

Style == applied[1]

\* the output line is the input line's indentation, then the marker, then a
\* tail of the input line's content
Receives(inLine, outLine, marker) ==
    /\ StartsWith(outLine, Indent(inLine) \o marker)
    /\ IsSuffix(SubSeq(outLine, IndentLen(inLine) + Len(marker) + 1, Len(outLine)),
                Content(inLine))

----------------------------------------------------------------------------
(* The claims *)

\* C1: for every style function and every text, the output has as many
\* lines as the input, and output line i comes from input line i alone: it is
\* that line unchanged, or its indentation, the marker of its position and a
\* tail of its content.  The empty text gives the empty text.
C1_LinesPreserved ==
    Once =>
        LET inL  == Lines(input)
            outL == Lines(selection)
        IN  /\ Len(outL) = Len(inL)
            /\ \A i \in 1..Len(inL) :
                  IF Blank(inL[i]) THEN outL[i] = inL[i]
                  ELSE Receives(inL[i], outL[i], ExpectedMarker(Style, ItemsBefore(inL, i)))
            /\ (input = <<>> => selection = <<>>)

\* a text of three lines or more with an empty line inside, formatted
C1_Witness ==
    /\ Once
    /\ Len(Lines(input)) >= 3
    /\ \E i \in 2..(Len(Lines(input)) - 1) : Lines(input)[i] = <<>>
    /\ \E i \in 1..Len(Lines(input)) : ~Blank(Lines(input)[i])
    /\ selection # input

\* C2: every line that is empty or holds white space only stands in the
\* output at the same position, character for character.
C2_BlankLinesKept ==
    Once =>
        LET inL  == Lines(input)
            outL == Lines(selection)
        IN  \A i \in 1..Len(inL) :
                Blank(inL[i]) => i <= Len(outL) /\ outL[i] = inL[i]

\* a line of white space alone beside an item, formatted
C2_Witness ==
    /\ Once
    /\ \E i \in 1..Len(Lines(input)) :
          Blank(Lines(input)[i]) /\ Lines(input)[i] # <<>>
    /\ \E i \in 1..Len(Lines(input)) : ~Blank(Lines(input)[i])

\* C3: formatBulletList applied twice gives what it gives applied once.
C3_BulletIdempotent ==
    applied = <<"bullet", "bullet">> => selection = formatBulletList(input)

\* a marker form at the start of the content: its length m, with white space
\* after it
RecognizedMarker(c, m) ==
    /\ m < Len(c)
    /\ IsSpace(c[m + 1])
    /\ \/ m = 1 /\ c[1] \in BulletChars
       \/ m >= 2 /\ c[m] = "." /\ \A i \in 1..(m - 1) : c[i] \in Digits
       \/ m = 2 /\ c[1] \in Letters /\ c[2] \in {".", ")"}
       \/ m >= 2 /\ c[m] = "." /\ \A i \in 1..(m - 1) : c[i] \in RomanLetters

\* what follows the marker of length m and all the white space after it
Residual(c, m) == LET rest == SubSeq(c, m + 1, Len(c)) IN Content(rest)

\* C4: a line W + C that is not blank becomes W + P + R when C starts with a
\* recognized marker, white space and then R, and W + P + C otherwise.
C4_MarkerReplaced ==
    Once =>
        LET inL  == Lines(input)
            outL == Lines(selection)
        IN  \A i \in 1..Len(inL) :
                ~Blank(inL[i]) =>
                    LET W == Indent(inL[i])
                        C == Content(inL[i])
                        P == ExpectedMarker(Style, ItemsBefore(inL, i))
                    IN  /\ i <= Len(outL)
                        /\ IF \E m \in 1..Len(C) : RecognizedMarker(C, m)
                           THEN \A m \in 1..Len(C) :
                                    RecognizedMarker(C, m) => outL[i] = W \o P \o Residual(C, m)
                           ELSE outL[i] = W \o P \o C

\* C5: formatNumberedList gives the k-th line that is not blank the marker
\* "k. ", blank lines not counted.
C5_NumberedSequence ==
    (Once /\ Style = "numbered") =>
        LET inL  == Lines(input)
            outL == Lines(selection)
        IN  \A i \in 1..Len(inL) :
                ~Blank(inL[i]) =>
                    /\ i <= Len(outL)
                    /\ Receives(inL[i], outL[i],
                                toString(ItemsBefore(inL, i) + 1) \o <<".", SP>>)

\* twelve items or more numbered, a blank line among the first ten
C5_Witness ==
    /\ Once /\ Style = "numbered"
    /\ LET inL == Lines(input)
       IN  /\ ItemsBefore(inL, Len(inL) + 1) >= 12
           /\ \E i \in 1..10 : Blank(inL[i])
           /\ StartsWith(Lines(selection)[Len(inL)], Indent(inL[Len(inL)]) \o <<"1">>)

\* C6: formatAlphabeticalList gives the item at 0-based position n the letter
\* at index n mod 26 from 'a' (lower) or 'A', then ". "; no other marker.
C6_AlphabeticalCycle ==
    (Once /\ Style \in {"alphabetical", "alphabeticalUpper"}) =>
        LET inL  == Lines(input)
            outL == Lines(selection)
            abc  == IF Style = "alphabetical" THEN LowerLetters ELSE UpperLetters
        IN  \A i \in 1..Len(inL) :
                ~Blank(inL[i]) =>
                    /\ i <= Len(outL)
                    /\ Receives(inL[i], outL[i],
                                <<abc[(ItemsBefore(inL, i) % 26) + 1], ".", SP>>)

\* the 27th item of a text with a blank line before it, lettered "a. " again
C6_Witness ==
    /\ Once /\ Style = "alphabetical"
    /\ LET inL == Lines(input)
       IN  \E i \in 1..Len(inL) :
              /\ ~Blank(inL[i])
              /\ ItemsBefore(inL, i) = 26
              /\ \E j \in 1..i : Blank(inL[j])
              /\ StartsWith(Lines(selection)[i], Indent(inL[i]) \o <<"a", ".", SP>>)

\* C7: formatRomanList gives the item at 0-based position n the numeral at
\* index n mod 20 of I..XX (lower-cased when lower), then ". ".
C7_RomanCycle ==
    (Once /\ Style \in {"roman", "romanUpper"}) =>
        LET inL  == Lines(input)
            outL == Lines(selection)
        IN  \A i \in 1..Len(inL) :
                ~Blank(inL[i]) =>
                    LET numeral == RomanOf((ItemsBefore(inL, i) % 20) + 1)
                    IN  /\ i <= Len(outL)
                        /\ Receives(inL[i], outL[i],
                                    (IF Style = "roman" THEN toLowerCase(numeral)
                                     ELSE numeral) \o <<".", SP>>)

\* the 21st item of a text with a blank line before it, numbered "i. " again
C7_Witness ==
    /\ Once /\ Style = "roman"
    /\ LET inL == Lines(input)
       IN  \E i \in 1..Len(inL) :
              /\ ~Blank(inL[i])
              /\ ItemsBefore(inL, i) = 20
              /\ \E j \in 1..i : Blank(inL[j])
              /\ StartsWith(Lines(selection)[i], Indent(inL[i]) \o <<"i", ".", SP>>)

\* C8: the output line of a line that is not blank starts with the line's
\* leading white space, all of it, and the new marker right after it.
C8_IndentationKept ==
    Once =>
        LET inL  == Lines(input)
            outL == Lines(selection)
        IN  \A i \in 1..Len(inL) :
                ~Blank(inL[i]) =>
                    /\ i <= Len(outL)
                    /\ StartsWith(outL[i], Indent(inL[i])
                                    \o ExpectedMarker(Style, ItemsBefore(inL, i)))

\* an indented item that carried a marker, formatted
C8_Witness ==
    /\ Once
    /\ LET inL == Lines(input)
       IN  \E i \in 1..Len(inL) :
              /\ ~Blank(inL[i])
              /\ IndentLen(inL[i]) >= 1
              /\ \E m \in 1..Len(Content(inL[i])) : RecognizedMarker(Content(inL[i]), m)

\* the value the generator of a style starts from
ExpectedStart(style) ==
    CASE style = "numbered"          -> 1
      [] style = "alphabetical"      -> 97
      [] style = "alphabeticalUpper" -> 65
      [] OTHER                       -> 0

SameArguments(f, g) == f.style = g.style /\ f.text = g.text

\* C9: the generator's state is the call's own and starts from its initial
\* value in every call; whatever calls ran before or run in between, two
\* calls with the same arguments return the same text.
C9_CallsIndependent ==
    /\ \A c \in Callers :
          (frames[c].pc = "running" /\ frames[c].idx = 1) =>
              frames[c].counter = ExpectedStart(frames[c].style)
    /\ \A c \in Callers :
          (frames[c].pc = "done" /\ ref # <<>> /\ SameArguments(frames[c], ref)) =>
              frames[c].result = ref.result
    /\ \A c, d \in Callers :
          (frames[c].pc = "done" /\ frames[d].pc = "done"
              /\ SameArguments(frames[c], frames[d])) =>
                  frames[c].result = frames[d].result

\* a numbered call remembered, the same call made again later and finished
\* while the other caller is in the middle of a call of another style
C9_Witness ==
    /\ ref # <<>>
    /\ ref.style = "numbered"
    /\ \E c, d \in Callers :
          /\ c # d
          /\ frames[c].pc = "done" /\ frames[c].afterRef
          /\ SameArguments(frames[c], ref)
          /\ Len(frames[c].lines) >= 3
          /\ frames[d].pc = "running" /\ frames[d].idx > 1
          /\ frames[d].style = "alphabetical"

NoDuplicates(seq) == \A i, j \in 1..Len(seq) : seq[i] = seq[j] => i = j

\* no toggle handler is suspended at its await
Settled == pending = 0

MarkerStyles == Styles \ {"checkbox"}

\* C11: re-styling discards the previous style's markers: for every text T,
\* every style function A but formatCheckboxList and every style function B,
\* B(A(T)) = B(T).
C11_RestyleDiscards ==
    (Len(applied) = 2 /\ applied[1] \in MarkerStyles) =>
        selection = FormattedText(applied[2], input)

====
